---- MODULE Spec2Model ----
(***************************************************************************)
(* The i18n resolver (cli-tool/src/i18n.js) and the translation validator  *)
(* (cli-tool/scripts/validate-translations.js) as state machines.          *)
(*                                                                         *)
(* A JavaScript string is a sequence of one-character strings, so that     *)
(* split, template concatenation, the placeholder regular expression and   *)
(* the default sort are computed character by character.  A JavaScript     *)
(* value is a record tagged by ty.                                         *)
(***************************************************************************)
EXTENDS Integers, Sequences, FiniteSets, TLC

VARIABLES
  files,          \* the locales directory: locale identifier -> content of <id>.json
  alive,          \* an I18n instance has been constructed
  locale,         \* I18n.locale
  fallbackLocale, \* I18n.fallbackLocale
  translations,   \* I18n.translations: identifier -> parsed tree
  loadedLocales,  \* I18n.loadedLocales
  last,           \* the last call: its operation, arguments, result and pre-state
  pending,        \* the call a pure function's specification draws its input as
  instance,       \* i18n.js's module-level `instance`: 0 for null, else the
                  \* number of the call that constructed it
  calls           \* the getI18n and init calls made so far, with their results

vars ==
  <<files, alive, locale, fallbackLocale, translations, loadedLocales, last, pending,
    instance, calls>>

---------------------------------------------------------------------------
(* Characters in UTF-16 code unit order (all are ASCII here).               *)
CharOrder ==
  << " ", "(", ")", ",", "-", ".", "0", "1", "2", "3", "4", "5", "6", "7", "8", "9",
     "A", "B", "C", "E", "F", "J", "L", "N", "O", "P", "S", "T", "U",
     "[", "]", "_",
     "a", "b", "c", "d", "e", "f", "g", "h", "i", "j", "k", "l", "m", "n", "o",
     "p", "q", "r", "s", "t", "u", "v", "w", "x", "y", "z", "{", "}" >>

CodeOf(c) == CHOOSE i \in DOMAIN CharOrder : CharOrder[i] = c

Digits == <<"0", "1", "2", "3", "4", "5", "6", "7", "8", "9">>

IsDigit(c) == \E i \in DOMAIN Digits : Digits[i] = c

DigitValue(c) == (CHOOSE i \in DOMAIN Digits : Digits[i] = c) - 1

(* \w of a JavaScript regular expression: [A-Za-z0-9_].                     *)
IsWordChar(c) ==
  /\ c \notin {" ", "(", ")", ",", "-", ".", "[", "]", "{", "}"}
  /\ \E i \in DOMAIN CharOrder : CharOrder[i] = c

(* a < b for strings, as the default Array.prototype.sort compares them.    *)
StrLess(a, b) ==
  \/ /\ Len(a) < Len(b)
     /\ \A i \in 1..Len(a) : a[i] = b[i]
  \/ \E i \in 1..Len(a) :
       /\ i <= Len(b)
       /\ \A j \in 1..(i - 1) : a[j] = b[j]
       /\ CodeOf(a[i]) < CodeOf(b[i])

Range(s) == {s[i] : i \in DOMAIN s}

RECURSIVE Concat(_)
Concat(ss) == IF ss = <<>> THEN <<>> ELSE Head(ss) \o Concat(Tail(ss))

---------------------------------------------------------------------------
(* JavaScript values.                                                       *)
Undefined == [ty |-> "undefined"]
Null == [ty |-> "null"]
Str(s) == [ty |-> "string", s |-> s]
Num(n) == [ty |-> "number", n |-> n]
Bool(b) == [ty |-> "boolean", b |-> b]
Arr(a) == [ty |-> "array", a |-> a]
(* An object is the sequence of its own <<key, value>> entries, in the      *)
(* order Object.entries lists them.                                         *)
Obj(e) == [ty |-> "object", e |-> e]
(* A function inherited from a prototype, named by the property it is.      *)
Builtin(name) == [ty |-> "function", name |-> name]

S_length == <<"l", "e", "n", "g", "t", "h">>
S_constructor == <<"c", "o", "n", "s", "t", "r", "u", "c", "t", "o", "r">>
S_toString == <<"t", "o", "S", "t", "r", "i", "n", "g">>

(* Members every value inherits from Object.prototype (two of them).        *)
ProtoNames == {S_constructor, S_toString}

(* JavaScript truthiness: `value && ...`, `!value`, `value || ...`.         *)
Truthy(v) ==
  CASE v.ty = "undefined" -> FALSE
    [] v.ty = "null" -> FALSE
    [] v.ty = "string" -> v.s # <<>>
    [] v.ty = "number" -> v.n # 0
    [] v.ty = "boolean" -> v.b
    [] OTHER -> TRUE

(* typeof v === 'object'                                                    *)
TypeofObject(v) == v.ty \in {"object", "array", "null"}

OwnKeys(v) == IF v.ty = "object" THEN {v.e[i][1] : i \in DOMAIN v.e} ELSE {}

OwnValue(v, key) == v.e[CHOOSE i \in DOMAIN v.e : v.e[i][1] = key][2]

IsIndexOf(key, n) == Len(key) = 1 /\ IsDigit(key[1]) /\ DigitValue(key[1]) < n

ProtoGet(key) == IF key \in ProtoNames THEN Builtin(key) ELSE Undefined

(* v[key] for a v that is neither null nor undefined: the own property,     *)
(* else the one inherited through the prototype chain.                      *)
Get(v, key) ==
  CASE v.ty = "object" ->
         IF key \in OwnKeys(v) THEN OwnValue(v, key) ELSE ProtoGet(key)
    [] v.ty = "string" ->
         IF key = S_length THEN Num(Len(v.s))
         ELSE IF IsIndexOf(key, Len(v.s)) THEN Str(<<v.s[DigitValue(key[1]) + 1]>>)
         ELSE ProtoGet(key)
    [] v.ty = "array" ->
         IF key = S_length THEN Num(Len(v.a))
         ELSE IF IsIndexOf(key, Len(v.a)) THEN v.a[DigitValue(key[1]) + 1]
         ELSE ProtoGet(key)
    [] v.ty = "function" ->
         IF key = S_length THEN Num(IF v.name = S_toString THEN 0 ELSE 1)
         ELSE ProtoGet(key)
    [] OTHER -> ProtoGet(key)

(* key.split('.')                                                           *)
RECURSIVE SplitFrom(_, _, _)
SplitFrom(s, i, cur) ==
  IF i > Len(s) THEN <<cur>>
  ELSE IF s[i] = "." THEN <<cur>> \o SplitFrom(s, i + 1, <<>>)
  ELSE SplitFrom(s, i + 1, Append(cur, s[i]))

Split(s) == SplitFrom(s, 1, <<>>)

(* String(v), as String.prototype.replace applies it to a replacement.      *)
NativeText(name) ==
  <<"f", "u", "n", "c", "t", "i", "o", "n", " ">>
  \o (IF name = S_constructor THEN <<"O", "b", "j", "e", "c", "t">> ELSE name)
  \o <<"(", ")", " ", "{", " ", "[", "n", "a", "t", "i", "v", "e", " ",
       "c", "o", "d", "e", "]", " ", "}">>

RECURSIVE NatToString(_)
NatToString(n) ==
  IF n < 10 THEN <<Digits[n + 1]>>
  ELSE NatToString(n \div 10) \o <<Digits[(n % 10) + 1]>>

RECURSIVE StringOf(_)
StringOf(v) ==
  CASE v.ty = "string" -> v.s
    [] v.ty = "number" -> IF v.n < 0 THEN <<"-">> \o NatToString(-v.n) ELSE NatToString(v.n)
    [] v.ty = "null" -> <<"n", "u", "l", "l">>
    [] v.ty = "boolean" -> IF v.b THEN <<"t", "r", "u", "e">> ELSE <<"f", "a", "l", "s", "e">>
    [] v.ty = "function" -> NativeText(v.name)
    [] v.ty = "array" ->
         Concat([i \in DOMAIN v.a |->
                   (IF i > 1 THEN <<",">> ELSE <<>>)
                   \o (IF v.a[i].ty \in {"null", "undefined"} THEN <<>> ELSE StringOf(v.a[i]))])
    [] OTHER -> <<"[", "o", "b", "j", "e", "c", "t", " ", "O", "b", "j", "e", "c", "t", "]">>

---------------------------------------------------------------------------
(* i18n.js: the pure parts of the resolver.                                 *)

(* The reduce callback of getNestedValue.                                   *)
reduceStep(current, segment) ==
  IF Truthy(current) /\ Get(current, segment) # Undefined
  THEN Get(current, segment)
  ELSE Undefined

RECURSIVE reduceFrom(_, _, _)
reduceFrom(current, segments, i) ==
  IF i > Len(segments) THEN current
  ELSE reduceFrom(reduceStep(current, segments[i]), segments, i + 1)

getNestedValue(obj, key) ==
  IF ~Truthy(obj) \/ ~TypeofObject(obj) THEN Undefined
  ELSE reduceFrom(obj, Split(key), 1)

(* The index just after the run of \w characters that starts at j.          *)
RECURSIVE WordEnd(_, _)
WordEnd(s, j) == IF j <= Len(s) /\ IsWordChar(s[j]) THEN WordEnd(s, j + 1) ELSE j

(* The index of the "}" ending a match of /\{(\w+)\}/ that starts at i, or 0. *)
MatchEnd(s, i) ==
  IF s[i] # "{" THEN 0
  ELSE LET j == WordEnd(s, i + 1)
       IN  IF j > i + 1 /\ j <= Len(s) /\ s[j] = "}" THEN j ELSE 0

(* The replacer callback of interpolate.                                    *)
replacer(match, key, params) ==
  IF Get(params, key) # Undefined THEN StringOf(Get(params, key)) ELSE match

(* template.replace(/\{(\w+)\}/g, replacer), from index i on.               *)
RECURSIVE replaceFrom(_, _, _)
replaceFrom(s, i, params) ==
  IF i > Len(s) THEN <<>>
  ELSE LET j == MatchEnd(s, i)
       IN  IF j = 0 THEN <<s[i]>> \o replaceFrom(s, i + 1, params)
           ELSE replacer(SubSeq(s, i, j), SubSeq(s, i + 1, j - 1), params)
                \o replaceFrom(s, j + 1, params)

interpolate(template, params) == Str(replaceFrom(template, 1, params))

---------------------------------------------------------------------------
(* i18n.js: class I18n.  Every method is an operator from the instance's    *)
(* fields (and the locales directory) to its result and the fields after;   *)
(* the actions below apply them to the state.                               *)

EN == <<"e", "n">>
JA == <<"j", "a">>
XX == <<"x", "x">>

(* A call that ended by throwing.                                           *)
Threw == [ty |-> "throw"]

Missing == [st |-> "missing"]
Corrupt == [st |-> "corrupt"]
Json(tree) == [st |-> "ok", tree |-> tree]

(* fs.existsSync(path.join(localesDir, locale + '.json'))                   *)
existsSync(fsys, loc) == loc \in DOMAIN fsys /\ fsys[loc].st # "missing"

(* this.translations[locale]                                                *)
TranslationsOf(tr, loc) == IF loc \in DOMAIN tr THEN tr[loc] ELSE Undefined

(* `a || b` on strings                                                      *)
OrElse(a, b) == IF a # <<>> THEN a ELSE b

(* loadLocale answering false for every missing source, the fallback's too. *)
loadLocaleFalseWhenMissing(tr, ld, fb, fsys, loc) ==
  IF loc \in ld
  THEN [ret |-> Bool(TRUE), translations |-> tr, loadedLocales |-> ld]
  ELSE IF ~existsSync(fsys, loc)
  THEN [ret |-> Bool(FALSE), translations |-> tr, loadedLocales |-> ld]
  ELSE IF fsys[loc].st = "corrupt"
  THEN [ret |-> Threw, translations |-> tr, loadedLocales |-> ld]
  ELSE [ret |-> Bool(TRUE),
        translations |-> [l \in DOMAIN tr \cup {loc} |->
                            IF l = loc THEN fsys[loc].tree ELSE tr[l]],
        loadedLocales |-> ld \cup {loc}]

(* loadLocale reading the source again for a locale it has loaded.          *)
loadLocaleReadsAgain(tr, ld, fb, fsys, loc) ==
  IF ~existsSync(fsys, loc)
  THEN IF loc # fb
       THEN [ret |-> Bool(FALSE), translations |-> tr, loadedLocales |-> ld]
       ELSE [ret |-> Threw, translations |-> tr, loadedLocales |-> ld]
  ELSE IF fsys[loc].st = "corrupt"
  THEN [ret |-> Threw, translations |-> tr, loadedLocales |-> ld]
  ELSE [ret |-> Bool(TRUE),
        translations |-> [l \in DOMAIN tr \cup {loc} |->
                            IF l = loc THEN fsys[loc].tree ELSE tr[l]],
        loadedLocales |-> ld \cup {loc}]

loadLocale(tr, ld, fb, fsys, loc) ==
  IF loc \in ld
  THEN [ret |-> Bool(TRUE), translations |-> tr, loadedLocales |-> ld]
  ELSE IF ~existsSync(fsys, loc)
  THEN IF loc # fb
       THEN [ret |-> Bool(FALSE), translations |-> tr, loadedLocales |-> ld]
       ELSE [ret |-> Threw, translations |-> tr, loadedLocales |-> ld]
  ELSE IF fsys[loc].st = "corrupt"
  THEN [ret |-> Threw, translations |-> tr, loadedLocales |-> ld]
  ELSE [ret |-> Bool(TRUE),
        translations |-> [l \in DOMAIN tr \cup {loc} |->
                            IF l = loc THEN fsys[loc].tree ELSE tr[l]],
        loadedLocales |-> ld \cup {loc}]

(* Object.keys(params).length > 0, for an object params                     *)
HasKeys(params) == params.ty = "object" /\ Len(params.e) > 0

(* The first half of t: the translation looked up in the target locale,    *)
(* then in the fallback locale.                                             *)
translationOf(tr, cur, fb, key, loc) ==
  LET targetLocale == OrElse(loc, cur)
      own == getNestedValue(TranslationsOf(tr, targetLocale), key)
  IN  IF own = Undefined /\ targetLocale # fb
      THEN getNestedValue(TranslationsOf(tr, fb), key)
      ELSE own

t(tr, cur, fb, key, params, loc) ==
  LET translation == translationOf(tr, cur, fb, key, loc)
  IN  IF translation = Undefined THEN Str(key)
      ELSE IF translation.ty = "string"
      THEN (* Object.keys(null) throws a TypeError *)
           IF params.ty = "null" THEN Threw
           ELSE IF HasKeys(params) THEN interpolate(translation.s, params)
           ELSE translation
      ELSE translation

(* setLanguage assigning this.locale before it looks at the load's result. *)
setLanguageCommitsFirst(tr, ld, cur, fb, fsys, loc) ==
  IF loc = cur
  THEN [ret |-> Bool(TRUE), locale |-> cur, translations |-> tr, loadedLocales |-> ld]
  ELSE LET loaded == loadLocale(tr, ld, fb, fsys, loc)
       IN  IF loaded.ret = Threw
           THEN [ret |-> Threw, locale |-> cur, translations |-> tr, loadedLocales |-> ld]
           ELSE [ret |-> IF loaded.ret = Bool(TRUE) \/ loc = fb THEN Bool(TRUE) ELSE Bool(FALSE),
                 locale |-> loc,
                 translations |-> loaded.translations,
                 loadedLocales |-> loaded.loadedLocales]

(* setLanguage taking a failed load for a successful one.                   *)
setLanguageIgnoresLoad(tr, ld, cur, fb, fsys, loc) ==
  IF loc = cur
  THEN [ret |-> Bool(TRUE), locale |-> cur, translations |-> tr, loadedLocales |-> ld]
  ELSE LET loaded == loadLocale(tr, ld, fb, fsys, loc)
       IN  IF loaded.ret = Threw
           THEN [ret |-> Threw, locale |-> cur, translations |-> tr, loadedLocales |-> ld]
           ELSE [ret |-> Bool(TRUE), locale |-> loc,
                 translations |-> loaded.translations,
                 loadedLocales |-> loaded.loadedLocales]

setLanguage(tr, ld, cur, fb, fsys, loc) ==
  IF loc = cur
  THEN [ret |-> Bool(TRUE), locale |-> cur, translations |-> tr, loadedLocales |-> ld]
  ELSE LET loaded == loadLocale(tr, ld, fb, fsys, loc)
       IN  IF loaded.ret = Threw
           THEN [ret |-> Threw, locale |-> cur, translations |-> tr, loadedLocales |-> ld]
           ELSE IF loaded.ret = Bool(TRUE) \/ loc = fb
           THEN [ret |-> Bool(TRUE), locale |-> loc,
                 translations |-> loaded.translations,
                 loadedLocales |-> loaded.loadedLocales]
           ELSE [ret |-> Bool(FALSE), locale |-> cur,
                 translations |-> loaded.translations,
                 loadedLocales |-> loaded.loadedLocales]

S_meta == <<"_", "m", "e", "t", "a">>
S_name == <<"n", "a", "m", "e">>
S_nativeName == <<"n", "a", "t", "i", "v", "e", "N", "a", "m", "e">>
S_direction == <<"d", "i", "r", "e", "c", "t", "i", "o", "n">>
S_completeness == <<"c", "o", "m", "p", "l", "e", "t", "e", "n", "e", "s", "s">>

(* translations._meta?.field || dflt                                        *)
MetaOr(tree, field, dflt) ==
  LET meta == Get(tree, S_meta)
      v == IF meta.ty \in {"undefined", "null"} THEN Undefined ELSE Get(meta, field)
  IN  IF Truthy(v) THEN v ELSE dflt

getLocaleInfo(tr, cur, loc) ==
  LET targetLocale == OrElse(loc, cur)
      translations_ == TranslationsOf(tr, targetLocale)
  IN  IF ~Truthy(translations_) THEN Null
      ELSE [ty |-> "info",
            locale |-> targetLocale,
            name |-> MetaOr(translations_, S_name, Str(targetLocale)),
            nativeName |-> MetaOr(translations_, S_nativeName, Str(targetLocale)),
            direction |-> MetaOr(translations_, S_direction, Str(<<"l", "t", "r">>)),
            completeness |-> MetaOr(translations_, S_completeness, Null)]

(* The two loads that end the constructor and reload(): the current locale, *)
(* then the fallback when it differs.  A throw leaves what was done so far. *)
loadBoth(tr, ld, cur, fb, fsys) ==
  LET first == loadLocale(tr, ld, fb, fsys, cur)
  IN  IF first.ret = Threw \/ cur = fb THEN first
      ELSE loadLocale(first.translations, first.loadedLocales, fb, fsys, fb)

EmptyTranslations == [l \in {} |-> Undefined]

reload(cur, fb, fsys) == loadBoth(EmptyTranslations, {}, cur, fb, fsys)

(* String.prototype.toLowerCase on the letters of CharOrder                 *)
LowerChar(c) ==
  CASE c = "A" -> "a" [] c = "B" -> "b" [] c = "C" -> "c" [] c = "E" -> "e"
    [] c = "F" -> "f" [] c = "J" -> "j" [] c = "L" -> "l" [] c = "N" -> "n"
    [] c = "O" -> "o" [] c = "P" -> "p" [] c = "S" -> "s" [] c = "T" -> "t"
    [] c = "U" -> "u" [] OTHER -> c

toLowerCase(s) == [i \in DOMAIN s |-> LowerChar(s[i])]

(* s.split(seps)[0]: the text before the first separator                    *)
RECURSIVE FirstPart(_, _)
FirstPart(s, seps) ==
  IF s = <<>> \/ Head(s) \in seps THEN <<>>
  ELSE <<Head(s)>> \o FirstPart(Tail(s), seps)

(* env: the four environment hints ("" when unset) and the locale Intl      *)
(* reports ("" when Intl throws).                                           *)
detectDefaultLocale(env) ==
  LET envLocale == OrElse(env.CLAUDE_LANG, OrElse(env.LANG, OrElse(env.LANGUAGE, env.LC_ALL)))
  IN  IF envLocale # <<>> THEN toLowerCase(FirstPart(envLocale, {"_", ".", "-"}))
      ELSE IF env.intl # <<>> THEN toLowerCase(FirstPart(env.intl, {"-"}))
      ELSE EN

(* new I18n(options): options.locale and options.fallbackLocale are "" when *)
(* not given.                                                               *)
constructor(options, env, fsys) ==
  LET cur == OrElse(options.locale, detectDefaultLocale(env))
      fb == OrElse(options.fallbackLocale, EN)
      loaded == loadBoth(EmptyTranslations, {}, cur, fb, fsys)
  IN  [ret |-> IF loaded.ret = Threw THEN Threw ELSE Undefined,
       locale |-> cur, fallbackLocale |-> fb,
       translations |-> loaded.translations,
       loadedLocales |-> loaded.loadedLocales]

---------------------------------------------------------------------------
(* The locale sources and the inputs of the resolver's specification.       *)

EnTree ==
  Obj(<< <<S_meta, Obj(<< <<S_name, Str(<<"E">>)>> >>)>>,
         <<<<"a">>, Str(<<"A">>)>>,
         <<<<"g">>, Obj(<< <<<<"h">>, Str(<<"h", "i", " ", "{", "n", "}">>)>> >>)>>,
         <<<<"s">>, Obj(<< <<S_length, Str(<<"L">>)>> >>)>>,
         <<<<"p">>, Str(<<"{", "u", "}", "{", "t", "o", "S", "t", "r", "i", "n", "g", "}">>)>> >>)

JaTree ==
  Obj(<< <<S_meta, Obj(<< <<S_name, Str(<<"J">>)>>, <<S_direction, Str(<<"r">>)>> >>)>>,
         <<<<"g">>, Obj(<< <<<<"h">>, Str(<<"{", "n", "}", "{", "x", "}", "{", "{", "u", "}">>)>> >>)>>,
         <<<<"s">>, Str(<<"a", "b", "c">>)>>,
         <<<<"n">>, Null>> >>)

JaTree2 ==
  Obj(<< <<<<"g">>, Obj(<< <<<<"h">>, Str(<<"v", "2">>)>> >>)>> >>)

FileIds == {EN, JA}

Contents(id) ==
  IF id = EN THEN {Missing, Corrupt, Json(EnTree)}
  ELSE {Missing, Corrupt, Json(JaTree), Json(JaTree2)}

(* Identifiers passed to the methods; XX has no source.                     *)
Ids == {EN, JA, XX}

KeyPaths ==
  { <<"g", ".", "h">>, <<"a">>, <<"z">>, <<"g">>, <<"n">>, <<"p">>,
    <<"s", ".">> \o S_length, <<"a", ".">> \o S_length, S_toString }

ParamSets ==
  { Obj(<<>>),
    Obj(<< <<<<"n">>, Str(<<"B">>)>> >>),
    Obj(<< <<<<"n">>, Str(<<"{", "x", "}">>)>>, <<<<"x">>, Num(7)>> >>),
    Null }

NoEnv == [CLAUDE_LANG |-> <<>>, LANG |-> <<>>, LANGUAGE |-> <<>>, LC_ALL |-> <<>>, intl |-> <<>>]

Envs ==
  { NoEnv,
    [NoEnv EXCEPT !.intl = <<"e", "n", "-", "U", "S">>],
    [NoEnv EXCEPT !.LANG = <<"j", "a", "_", "J", "P", ".", "U", "T", "F", "-", "8">>,
                  !.LC_ALL = <<"C">>],
    [NoEnv EXCEPT !.LANGUAGE = <<"X", "X", "-", "a">>, !.intl = <<"j", "a">>] }

OptionSets == [locale : {<<>>, EN, JA}, fallbackLocale : {<<>>, JA}]

(* The fields of the instance, as `last.pre` keeps them.                    *)
Fields ==
  [alive |-> alive, locale |-> locale, fallbackLocale |-> fallbackLocale,
   translations |-> translations, loadedLocales |-> loadedLocales]

NoCall == [op |-> "none"]

NoRet == [ty |-> "none"]

(* The record of a call.  prevRet: what the call before it returned, when   *)
(* that was the same operation on the same arguments.                       *)
Call(op, args, ret) ==
  [op |-> op, args |-> args, ret |-> ret, pre |-> Fields,
   prevRet |-> IF last.op = op /\ last.args = args THEN last.ret ELSE NoRet]

AllFiles ==
  {f \in [FileIds -> UNION {Contents(id) : id \in FileIds}] :
     \A id \in FileIds : f[id] \in Contents(id)}

NoInstance ==
  /\ alive = FALSE
  /\ locale = <<>>
  /\ fallbackLocale = <<>>
  /\ translations = EmptyTranslations
  /\ loadedLocales = {}
  /\ instance = 0
  /\ calls = <<>>

Init ==
  /\ files \in AllFiles
  /\ NoInstance
  /\ last = NoCall
  /\ pending = NoCall

(* The locales directory changes under the program.                         *)
WriteFile(id, content) ==
  /\ content # files[id]
  /\ files' = [files EXCEPT ![id] = content]
  /\ last' = Call("writeFile", <<id>>, Undefined)
  /\ UNCHANGED <<alive, locale, fallbackLocale, translations, loadedLocales, pending, instance, calls>>

New(options, env) ==
  /\ ~alive
  /\ LET r == constructor(options, env, files)
     IN  /\ last' = Call("new", <<options, env>>, r.ret)
         /\ IF r.ret = Threw
            THEN UNCHANGED <<alive, locale, fallbackLocale, translations, loadedLocales>>
            ELSE /\ alive' = TRUE
                 /\ locale' = r.locale
                 /\ fallbackLocale' = r.fallbackLocale
                 /\ translations' = r.translations
                 /\ loadedLocales' = r.loadedLocales
  /\ UNCHANGED <<files, pending, instance, calls>>

LoadLocale(loc) ==
  /\ alive
  /\ LET r == loadLocale(translations, loadedLocales, fallbackLocale, files, loc)
     IN  /\ last' = Call("loadLocale", <<loc>>, r.ret)
         /\ translations' = r.translations
         /\ loadedLocales' = r.loadedLocales
  /\ UNCHANGED <<files, alive, locale, fallbackLocale, pending, instance, calls>>

(* t loading the locale it is asked to resolve in.                          *)
TLoadsTarget(key, params, loc) ==
  /\ alive
  /\ LET r == loadLocale(translations, loadedLocales, <<>>, files, OrElse(loc, locale))
     IN  /\ last' = Call("t", <<key, params, loc>>,
                         t(r.translations, locale, fallbackLocale, key, params, loc))
         /\ translations' = r.translations
         /\ loadedLocales' = r.loadedLocales
  /\ UNCHANGED <<files, alive, locale, fallbackLocale, pending, instance, calls>>

T(key, params, loc) ==
  /\ alive
  /\ last' = Call("t", <<key, params, loc>>,
                  t(translations, locale, fallbackLocale, key, params, loc))
  /\ UNCHANGED <<files, alive, locale, fallbackLocale, translations, loadedLocales, pending, instance, calls>>

SetLanguage(loc) ==
  /\ alive
  /\ LET r == setLanguage(translations, loadedLocales, locale, fallbackLocale, files, loc)
     IN  /\ last' = Call("setLanguage", <<loc>>, r.ret)
         /\ locale' = r.locale
         /\ translations' = r.translations
         /\ loadedLocales' = r.loadedLocales
  /\ UNCHANGED <<files, alive, fallbackLocale, pending, instance, calls>>

GetLocaleInfo(loc) ==
  /\ alive
  /\ last' = Call("getLocaleInfo", <<loc>>, getLocaleInfo(translations, locale, loc))
  /\ UNCHANGED <<files, alive, locale, fallbackLocale, translations, loadedLocales, pending, instance, calls>>

Reload ==
  /\ alive
  /\ LET r == reload(locale, fallbackLocale, files)
     IN  /\ last' = Call("reload", <<>>, IF r.ret = Threw THEN Threw ELSE Undefined)
         /\ translations' = r.translations
         /\ loadedLocales' = r.loadedLocales
  /\ UNCHANGED <<files, alive, locale, fallbackLocale, pending, instance, calls>>

(* The resolver over its life: the calls a caller can make, in any order,   *)
(* while the locales directory changes.                                     *)
FewKeyPaths == { <<"g", ".", "h">>, <<"z">> }

Next ==
  \/ \E id \in FileIds : \E content \in Contents(id) : WriteFile(id, content)
  \/ \E options \in OptionSets : \E env \in Envs : New(options, env)
  \/ \E loc \in Ids : LoadLocale(loc)
  \/ \E key \in FewKeyPaths : \E loc \in {<<>>, JA, XX} : T(key, Obj(<<>>), loc)
  \/ \E loc \in Ids : SetLanguage(loc)
  \/ \E loc \in Ids \cup {<<>>} : GetLocaleInfo(loc)
  \/ Reload

Spec == Init /\ [][Next]_vars

(* t as a function of its arguments: Init draws them, the resolver is       *)
(* constructed and its language set, and TPending applies t to them.        *)
TInputs == KeyPaths \X ParamSets \X (Ids \cup {<<>>})

InitT ==
  /\ files \in AllFiles
  /\ NoInstance
  /\ last = NoCall
  /\ pending \in {[op |-> "t", args |-> a] : a \in TInputs}

TPending == T(pending.args[1], pending.args[2], pending.args[3])

NextT ==
  \/ \E options \in OptionSets : New(options, NoEnv)
  \/ \E loc \in Ids : SetLanguage(loc)
  \/ TPending

SpecT == InitT /\ [][NextT]_vars

---------------------------------------------------------------------------
(* validate-translations.js: class TranslationValidator.                    *)

(* key.startsWith('_')                                                      *)
startsWithUnderscore(key) == key # <<>> /\ key[1] = "_"

(* Array.prototype.sort() with the default comparison, on strings           *)
RECURSIVE InsertSorted(_, _)
InsertSorted(x, s) ==
  IF s = <<>> THEN <<x>>
  ELSE IF StrLess(x, Head(s)) THEN <<x>> \o s
  ELSE <<Head(s)>> \o InsertSorted(x, Tail(s))

RECURSIVE sort(_)
sort(s) == IF s = <<>> THEN <<>> ELSE InsertSorted(Head(s), sort(Tail(s)))

(* prefix ? `${prefix}.${key}` : key                                        *)
fullKeyOf(prefix, key) == IF prefix # <<>> THEN prefix \o <<".">> \o key ELSE key

(* value && typeof value === 'object' && !Array.isArray(value)              *)
IsNested(value) == Truthy(value) /\ TypeofObject(value) /\ value.ty # "array"

RECURSIVE extractKeys(_, _)
extractKeys(obj, prefix) ==
  sort(Concat([i \in DOMAIN obj.e |->
                 LET key == obj.e[i][1]
                     value == obj.e[i][2]
                 IN  IF startsWithUnderscore(key) THEN <<>>
                     ELSE IF IsNested(value) THEN extractKeys(value, fullKeyOf(prefix, key))
                     ELSE <<fullKeyOf(prefix, key)>>]))

(* keys.includes(key)                                                       *)
includes(keys, key) == \E i \in DOMAIN keys : keys[i] = key

(* parseFloat((count / total * 100).toFixed(2)), in hundredths of a percent:*)
(* toFixed rounds to the nearest hundredth, a tie upwards.                  *)
percent(count, total) == (20000 * count + total) \div (2 * total)

(* coverage from the target's size alone, its extra keys not taken off.     *)
coverageOfTotal(masterKeys, targetKeys, extraKeys) ==
  IF Len(masterKeys) > 0
  THEN percent(Len(targetKeys), Len(masterKeys))
  ELSE 0

coverageOf(masterKeys, targetKeys, extraKeys) ==
  IF Len(masterKeys) > 0
  THEN percent(Len(targetKeys) - Len(extraKeys), Len(masterKeys))
  ELSE 0

(* compareKeys with isComplete decided by the missing keys alone.           *)
compareKeysMissingOnly(masterKeys, targetKeys, language) ==
  LET missingKeys == SelectSeq(masterKeys, LAMBDA key : ~includes(targetKeys, key))
      extraKeys == SelectSeq(targetKeys, LAMBDA key : ~includes(masterKeys, key))
  IN  [language |-> language,
       totalKeys |-> Len(targetKeys),
       missingKeys |-> missingKeys,
       extraKeys |-> extraKeys,
       coverage |-> coverageOf(masterKeys, targetKeys, extraKeys),
       isComplete |-> Len(missingKeys) = 0]

compareKeys(masterKeys, targetKeys, language) ==
  LET missingKeys == SelectSeq(masterKeys, LAMBDA key : ~includes(targetKeys, key))
      extraKeys == SelectSeq(targetKeys, LAMBDA key : ~includes(masterKeys, key))
  IN  [language |-> language,
       totalKeys |-> Len(targetKeys),
       missingKeys |-> missingKeys,
       extraKeys |-> extraKeys,
       coverage |-> coverageOf(masterKeys, targetKeys, extraKeys),
       isComplete |-> Len(missingKeys) = 0 /\ Len(extraKeys) = 0]

masterFile == EN

loadLanguageFile(fsys, id) ==
  IF ~existsSync(fsys, id) THEN Threw
  ELSE IF fsys[id].st = "corrupt" THEN Threw
  ELSE fsys[id].tree

(* fs.readdirSync(localesDir), the '.json' files by name                    *)
readdirSync(fsys) ==
  Concat([i \in 1..Cardinality(DOMAIN fsys) |->
            LET id == CHOOSE x \in DOMAIN fsys :
                        Cardinality({y \in DOMAIN fsys : StrLess(y, x)}) = i - 1
            IN  IF existsSync(fsys, id) THEN <<id>> ELSE <<>>])

(* process.exit(1) inside validate()                                        *)
Exited == [ty |-> "exit", code |-> 1]

validate(fsys) ==
  LET masterData == loadLanguageFile(fsys, masterFile)
  IN  IF masterData = Threw THEN Exited
      ELSE LET masterKeys == extractKeys(masterData, <<>>)
               languageFiles == SelectSeq(readdirSync(fsys), LAMBDA file : file # masterFile)
           IN  IF \E i \in DOMAIN languageFiles :
                    loadLanguageFile(fsys, languageFiles[i]) = Threw
               THEN Exited
               ELSE [ty |-> "results",
                     masterKeyCount |-> Len(masterKeys),
                     languages |->
                       [i \in DOMAIN languageFiles |->
                          compareKeys(masterKeys,
                                      extractKeys(loadLanguageFile(fsys, languageFiles[i]), <<>>),
                                      languageFiles[i])]]

(* run(): what the process ends with.  completed: run() returned its exit   *)
(* code; otherwise validate() ended the process.                            *)
(* run() without the warnOnly branch.                                       *)
runWithoutWarnOnly(options, fsys) ==
  LET results == validate(fsys)
  IN  IF results = Exited THEN [completed |-> FALSE, exitCode |-> 1]
      ELSE LET hasIssues ==
                 \E i \in DOMAIN results.languages :
                   \/ Len(results.languages[i].missingKeys) > 0
                   \/ Len(results.languages[i].extraKeys) > 0
           IN  IF ~hasIssues THEN [completed |-> TRUE, exitCode |-> 0]
               ELSE IF options.allowMissing THEN [completed |-> TRUE, exitCode |-> 0]
               ELSE [completed |-> TRUE, exitCode |-> 1]

run(options, fsys) ==
  LET results == validate(fsys)
  IN  IF results = Exited THEN [completed |-> FALSE, exitCode |-> 1]
      ELSE LET hasIssues ==
                 \E i \in DOMAIN results.languages :
                   \/ Len(results.languages[i].missingKeys) > 0
                   \/ Len(results.languages[i].extraKeys) > 0
           IN  IF ~hasIssues THEN [completed |-> TRUE, exitCode |-> 0]
               ELSE IF options.allowMissing THEN [completed |-> TRUE, exitCode |-> 0]
               ELSE IF options.warnOnly THEN [completed |-> TRUE, exitCode |-> 0]
               ELSE [completed |-> TRUE, exitCode |-> 1]

---------------------------------------------------------------------------
(* The validator's specification: Init draws a call and the locales         *)
(* directory it runs on, and the actions make the call.                     *)

FR == <<"f", "r">>

VMaster ==
  Obj(<< <<S_meta, Obj(<< <<<<"x">>, Str(<<"1">>)>> >>)>>,
         <<<<"a">>, Obj(<< <<<<"b">>, Str(<<"x">>)>> >>)>>,
         <<<<"c">>, Str(<<"y">>)>> >>)

VSync ==
  Obj(<< <<<<"c">>, Str(<<"Y">>)>>,
         <<<<"a">>, Obj(<< <<<<"b">>, Str(<<"X">>)>> >>)>> >>)

VMiss == Obj(<< <<<<"a">>, Obj(<< <<<<"b">>, Str(<<"X">>)>> >>)>> >>)

VExtra ==
  Obj(<< <<<<"a">>, Obj(<< <<<<"b">>, Str(<<"X">>)>>, <<<<"d">>, Str(<<"D">>)>> >>)>>,
         <<<<"c">>, Str(<<"Y">>)>> >>)

VMixed == Obj(<< <<<<"e">>, Str(<<"E">>)>>, <<<<"c">>, Str(<<"Y">>)>> >>)

VDeep ==
  Obj(<< <<<<"b">>, Obj(<< <<<<"_", "h">>, Str(<<"1">>)>>,
                           <<<<"d">>, Obj(<< <<<<"e">>, Str(<<"x">>)>>,
                                             <<<<"_", "f">>, Obj(<< <<<<"g">>, Str(<<"y">>)>> >>)>> >>)>> >>)>>,
         <<<<"a">>, Str(<<"z">>)>> >>)

VLeaves ==
  Obj(<< <<<<"n">>, Null>>, <<<<"k">>, Num(5)>>, <<<<"t">>, Bool(TRUE)>>,
         <<<<"r">>, Arr(<<Str(<<"x">>)>>)>>, <<<<"e">>, Obj(<<>>)>>,
         <<<<"f">>, Bool(FALSE)>>, <<<<"z">>, Num(0)>>, <<<<"s">>, Str(<<>>)>> >>)

VOrder ==
  Obj(<< <<<<"a", "b">>, Str(<<"3">>)>>, <<<<"a", "-", "b">>, Str(<<"1">>)>>,
         <<<<"a">>, Obj(<< <<<<"b">>, Str(<<"2">>)>> >>)>>, <<<<"B">>, Str(<<"4">>)>> >>)

VEmptySegment == Obj(<< <<<<>>, Obj(<< <<<<"b">>, Str(<<"x">>)>> >>)>>, <<<<"a">>, Str(<<"y">>)>> >>)

VTrees ==
  { VMaster, VSync, VMiss, VExtra, VMixed, VDeep, VLeaves, VOrder, VEmptySegment,
    Obj(<<>>), EnTree, JaTree, JaTree2 }

VContents(id) ==
  IF id = EN THEN {Missing, Corrupt, Json(VMaster), Json(Obj(<<>>))}
  ELSE IF id = JA THEN {Missing, Corrupt, Json(VSync), Json(VMiss), Json(VExtra), Json(VMixed)}
  ELSE {Missing, Corrupt, Json(VSync), Json(VMiss)}

VFiles ==
  {f \in [{EN, JA, FR} -> UNION {VContents(id) : id \in {EN, JA, FR}}] :
     \A id \in {EN, JA, FR} : f[id] \in VContents(id)}

NoFiles == [id \in {EN, JA, FR} |-> Missing]

MaxKeys == 3

KeyUniverse == { <<"k", "1">>, <<"k", "2">>, <<"k", "3">> }

KeyLists == UNION {[1..n -> KeyUniverse] : n \in 0..MaxKeys}

ValidatorOptions ==
  [strict : BOOLEAN, warnOnly : BOOLEAN, allowMissing : BOOLEAN, generateReport : BOOLEAN]

InitV ==
  /\ NoInstance
  /\ last = NoCall
  /\ \/ /\ files = NoFiles
        /\ \/ pending \in {[op |-> "extractKeys", args |-> <<tree>>] : tree \in VTrees}
           \/ pending \in {[op |-> "compareKeys", args |-> <<m, k>>] :
                             m \in KeyLists, k \in KeyLists}
           \/ \E tree \in VTrees :
                pending \in {[op |-> "roundTrip", args |-> <<tree, i>>] :
                               i \in 1..Len(extractKeys(tree, <<>>))}
     \/ /\ files \in VFiles
        /\ pending \in {[op |-> "run", args |-> <<o>>] : o \in ValidatorOptions}

Done(op, args, ret) ==
  /\ pending.op = op
  /\ last = NoCall
  /\ last' = Call(op, args, ret)
  /\ UNCHANGED <<files, alive, locale, fallbackLocale, translations, loadedLocales, pending, instance, calls>>

ExtractKeys == Done("extractKeys", pending.args, extractKeys(pending.args[1], <<>>))

CompareKeys ==
  Done("compareKeys", pending.args,
       compareKeys(pending.args[1], pending.args[2], <<"t">>))

Run == Done("run", pending.args, run(pending.args[1], files))

(* Load a source, extract its key paths, resolve the i-th of them.          *)
RoundTrip ==
  LET fsys == [id \in {EN} |-> Json(pending.args[1])]
      i18n == constructor([locale |-> EN, fallbackLocale |-> <<>>], NoEnv, fsys)
      key == extractKeys(loadLanguageFile(fsys, EN), <<>>)[pending.args[2]]
  IN  Done("roundTrip", <<pending.args[1], key>>,
           t(i18n.translations, i18n.locale, i18n.fallbackLocale, key, Obj(<<>>), <<>>))

NextV == ExtractKeys \/ CompareKeys \/ Run \/ RoundTrip

SpecV == InitV /\ [][NextV]_vars

---------------------------------------------------------------------------
(* parseLanguageFromArgs.  An argument list is a sequence of strings; an    *)
(* index is 1-based here, and 0 is findIndex's -1.                          *)

S_lang == <<"-", "-", "l", "a", "n", "g">>

S_language == S_lang \o <<"u", "a", "g", "e">>

startsWith(s, p) == Len(s) >= Len(p) /\ SubSeq(s, 1, Len(p)) = p

(* arg === '--lang' || arg === '--language'                                 *)
IsLangFlag(arg) == arg = S_lang \/ arg = S_language

(* arg.startsWith('--lang=') || arg.startsWith('--language=')               *)
IsLangAssignment(arg) ==
  startsWith(arg, S_lang \o <<"=">>) \/ startsWith(arg, S_language \o <<"=">>)

(* args.findIndex(P), given the set of the indices whose element satisfies  *)
(* P: the first of them                                                     *)
findIndex(hits) ==
  IF hits = {} THEN 0 ELSE CHOOSE i \in hits : \A j \in hits : i <= j

(* args[i], undefined beyond the end of the list                            *)
ArgAt(args, i) == IF i \in DOMAIN args THEN Str(args[i]) ELSE Undefined

RECURSIVE splitFrom(_, _, _, _)
splitFrom(s, sep, i, cur) ==
  IF i > Len(s) THEN <<cur>>
  ELSE IF s[i] = sep THEN <<cur>> \o splitFrom(s, sep, i + 1, <<>>)
  ELSE splitFrom(s, sep, i + 1, Append(cur, s[i]))

(* langArg.split('=')[1]                                                    *)
splitEquals(s) == splitFrom(s, "=", 1, <<>>)

parseLanguageFromArgs(args) ==
  LET langIndex == findIndex({i \in DOMAIN args : IsLangFlag(args[i])})
  IN  IF langIndex # 0 /\ Truthy(ArgAt(args, langIndex + 1))
      THEN ArgAt(args, langIndex + 1)
      ELSE LET langArg == findIndex({i \in DOMAIN args : IsLangAssignment(args[i])})
           IN  IF langArg # 0
               THEN Str(splitEquals(args[langArg])[2])
               ELSE Null

(* The argument lists: the four forms, values, an empty value, and an       *)
(* argument that is no language flag.                                       *)
MaxArgs == 3

ArgWords ==
  { S_lang, S_language, S_lang \o <<"=", "j">>, S_language \o <<"=", "e">>,
    S_lang \o <<"=">>, S_lang \o <<"=", "a", "=", "b">>, <<"j">>, <<"-", "v">>, <<>> }

ArgLists == UNION {[1..n -> ArgWords] : n \in 0..MaxArgs}

InitA ==
  /\ NoInstance
  /\ files = NoFiles
  /\ last = NoCall
  /\ pending \in {[op |-> "parseLanguageFromArgs", args |-> <<args>>] : args \in ArgLists}

ParseLanguageFromArgs ==
  Done("parseLanguageFromArgs", pending.args, parseLanguageFromArgs(pending.args[1]))

NextA == ParseLanguageFromArgs

SpecA == InitA /\ [][NextA]_vars

---------------------------------------------------------------------------
(* The module-level singleton of i18n.js: getI18n and init.  An instance is *)
(* named by the number of the call that constructed it; the fields of the   *)
(* module's instance are the variables locale .. loadedLocales.             *)

MaxCalls == 3

(* The entry of `calls` for a call: ret is the instance returned, 0 when    *)
(* the call threw.                                                          *)
Made(op, ret) == Append(calls, [op |-> op, ret |-> ret])

(* instance = new I18n(options): a constructor that throws leaves the       *)
(* assignment undone.                                                       *)
AssignNew(op, options) ==
  LET r == constructor(options, NoEnv, files)
      id == Len(calls) + 1
  IN  IF r.ret = Threw
      THEN /\ last' = Call(op, <<options>>, Threw)
           /\ calls' = Made(op, 0)
           /\ UNCHANGED <<alive, locale, fallbackLocale, translations, loadedLocales, instance>>
      ELSE /\ last' = Call(op, <<options>>, Num(id))
           /\ calls' = Made(op, id)
           /\ instance' = id
           /\ alive' = TRUE
           /\ locale' = r.locale
           /\ fallbackLocale' = r.fallbackLocale
           /\ translations' = r.translations
           /\ loadedLocales' = r.loadedLocales

(* getI18n that constructs an instance at every call.                       *)
GetI18nAlwaysNew(options) ==
  /\ Len(calls) < MaxCalls
  /\ AssignNew("getI18n", options)
  /\ UNCHANGED <<files, pending>>

GetI18n(options) ==
  /\ Len(calls) < MaxCalls
  /\ IF instance = 0
     THEN AssignNew("getI18n", options)
     ELSE /\ last' = Call("getI18n", <<options>>, Num(instance))
          /\ calls' = Made("getI18n", instance)
          /\ UNCHANGED <<alive, locale, fallbackLocale, translations, loadedLocales, instance>>
  /\ UNCHANGED <<files, pending>>

InitI18n(options) ==
  /\ Len(calls) < MaxCalls
  /\ AssignNew("init", options)
  /\ UNCHANGED <<files, pending>>

(* The options of the calls: none, a locale, a locale and a fallback.       *)
SingletonOptions ==
  { [locale |-> <<>>, fallbackLocale |-> <<>>],
    [locale |-> JA, fallbackLocale |-> <<>>],
    [locale |-> EN, fallbackLocale |-> JA] }

NextS ==
  \/ \E id \in FileIds : \E content \in Contents(id) : WriteFile(id, content)
  \/ \E options \in SingletonOptions : GetI18n(options)
  \/ \E options \in SingletonOptions : InitI18n(options)

SpecS == Init /\ [][NextS]_vars

---------------------------------------------------------------------------
(* The vocabulary of the claims: a key path in a tree as the specification  *)
(* reads it, without the code's property reads.                             *)

Absent == [ty |-> "absent"]

(* The value at the end of the segments, each an own key of a nested tree.  *)
RECURSIVE Lookup(_, _)
Lookup(tree, segs) ==
  IF segs = <<>> THEN tree
  ELSE IF tree.ty = "object" /\ Head(segs) \in OwnKeys(tree)
  THEN Lookup(OwnValue(tree, Head(segs)), Tail(segs))
  ELSE Absent

(* The value of key path key in the registry's tree of loc.                 *)
TreeValue(tr, loc, key) ==
  IF loc \in DOMAIN tr /\ tr[loc].ty = "object" THEN Lookup(tr[loc], Split(key)) ELSE Absent

LastTarget == OrElse(last.args[3], locale)

(* The segment paths from the root to the leaves, no segment starting "_".  *)
RECURSIVE LeafPaths(_)
LeafPaths(tree) ==
  UNION { IF startsWithUnderscore(tree.e[i][1]) THEN {}
          ELSE IF tree.e[i][2].ty = "object"
          THEN {<<tree.e[i][1]>> \o path : path \in LeafPaths(tree.e[i][2])}
          ELSE {<<tree.e[i][1]>>} : i \in DOMAIN tree.e }

RECURSIVE DotJoin(_)
DotJoin(path) ==
  IF Len(path) = 1 THEN path[1] ELSE path[1] \o <<".">> \o DotJoin(Tail(path))

PathSet(tree) == {DotJoin(path) : path \in LeafPaths(tree)}

Sorted(keys) == \A i, j \in DOMAIN keys : i < j => ~StrLess(keys[j], keys[i])

NoRepeats(keys) == \A i, j \in DOMAIN keys : keys[i] = keys[j] => i = j

(* out is src without the elements that occur in other, in src's order.     *)
IsFiltered(out, src, other) ==
  LET keep == {i \in DOMAIN src : src[i] \notin Range(other)}
      nth(j) == CHOOSE i \in keep : Cardinality({k \in keep : k < i}) = j - 1
  IN  /\ Len(out) = Cardinality(keep)
      /\ \A j \in DOMAIN out : out[j] = src[nth(j)]

(* The "}" of a placeholder {name} starting at i, or 0.                     *)
PlaceholderEnd(s, i) ==
  LET ends == {j \in (i + 2)..Len(s) :
                 s[j] = "}" /\ \A k \in (i + 1)..(j - 1) : IsWordChar(s[k])}
  IN  IF s[i] = "{" /\ ends # {} THEN CHOOSE j \in ends : TRUE ELSE 0

(* The template from i on, each placeholder whose name is a key of params   *)
(* replaced by its value, in one pass.                                      *)
RECURSIVE Substituted(_, _, _)
Substituted(s, i, params) ==
  IF i > Len(s) THEN <<>>
  ELSE LET j == PlaceholderEnd(s, i)
       IN  IF j = 0 THEN <<s[i]>> \o Substituted(s, i + 1, params)
           ELSE (IF SubSeq(s, i + 1, j - 1) \in OwnKeys(params)
                 THEN StringOf(OwnValue(params, SubSeq(s, i + 1, j - 1)))
                 ELSE SubSeq(s, i, j))
                \o Substituted(s, j + 1, params)

---------------------------------------------------------------------------
(* C1: a key path present in the target locale's own tree resolves to that  *)
(* tree's value; one absent from it and present in the fallback locale's    *)
(* tree resolves to the fallback's value (calls without params).            *)
C1_TargetThenFallback ==
  (last.op = "t" /\ last.args[2] = Obj(<<>>)) =>
    LET own == TreeValue(translations, LastTarget, last.args[1])
        fallback == TreeValue(translations, fallbackLocale, last.args[1])
    IN  /\ own # Absent => last.ret = own
        /\ (own = Absent /\ fallback # Absent) => last.ret = fallback

(* C2: a key path absent from the target locale's tree and from the         *)
(* fallback locale's tree is returned unchanged, and t does not throw,      *)
(* whatever the params.                                                     *)
C2_MissingKeyEchoed ==
  (/\ last.op = "t"
   /\ TreeValue(translations, LastTarget, last.args[1]) = Absent
   /\ TreeValue(translations, fallbackLocale, last.args[1]) = Absent)
  => last.ret = Str(last.args[1])

(* C3: with a string resolved and params not empty, the result is the       *)
(* template with each placeholder whose name is a key of params replaced by *)
(* its value, every other placeholder and all other text left as they are,  *)
(* in a single pass.                                                        *)
C3_Interpolation ==
  (/\ last.op = "t"
   /\ HasKeys(last.args[2])
   /\ translationOf(translations, locale, fallbackLocale, last.args[1], last.args[3]).ty
        = "string")
  => last.ret =
       Str(Substituted(
             translationOf(translations, locale, fallbackLocale, last.args[1], last.args[3]).s,
             1, last.args[2]))

LastLoadSucceeds ==
  \/ last.args[1] \in last.pre.loadedLocales
  \/ existsSync(files, last.args[1]) /\ files[last.args[1]].st = "ok"

LastSwitches ==
  /\ last.op = "setLanguage"
  /\ last.args[1] # last.pre.locale
  /\ last.args[1] # last.pre.fallbackLocale

C6_RoundTrip ==
  last.op = "roundTrip" =>
    /\ Lookup(last.args[1], Split(last.args[2])) # Absent
    /\ last.ret = Lookup(last.args[1], Split(last.args[2]))

(* C7: extractKeys returns, sorted, exactly the dot-joined paths from the   *)
(* root to every leaf on which no segment starts with "_".                  *)
C7_ExtractKeysExact ==
  last.op = "extractKeys" =>
    /\ Sorted(last.ret)
    /\ NoRepeats(last.ret)
    /\ Range(last.ret) = PathSet(last.args[1])

(* C8: missingKeys is masterKeys without the keys of targetKeys, in master  *)
(* order; extraKeys is targetKeys without the keys of masterKeys, in target *)
(* order; isComplete holds exactly when both are empty.                     *)
C8_CompareKeys ==
  last.op = "compareKeys" =>
    /\ IsFiltered(last.ret.missingKeys, last.args[1], last.args[2])
    /\ IsFiltered(last.ret.extraKeys, last.args[2], last.args[1])
    /\ last.ret.isComplete <=> (last.ret.missingKeys = <<>> /\ last.ret.extraKeys = <<>>)

C8_Witness ==
  /\ last.op = "compareKeys"
  /\ Len(last.ret.missingKeys) = 2
  /\ Len(last.ret.extraKeys) = 1
  /\ ~last.ret.isComplete

(* The coverage of the master keys by the keys the two lists share.         *)
SharedCoverage(masterKeys, targetKeys) ==
  IF Len(masterKeys) = 0 THEN 0
  ELSE percent(Cardinality(Range(targetKeys) \cap Range(masterKeys)), Len(masterKeys))

(* C9, as claimed: for all lists, the coverage is that of the keys the two  *)
(* lists share, |targetKeys| - |extraKeys| being their number.              *)
C9_CoverageAllLists ==
  last.op = "compareKeys" =>
    /\ last.ret.coverage = SharedCoverage(last.args[1], last.args[2])
    /\ Len(last.args[2]) - Len(last.ret.extraKeys)
         = Cardinality(Range(last.args[2]) \cap Range(last.args[1]))

(* C9, amended: for lists without repeated keys, the coverage is that of    *)
(* the keys the two lists share, |targetKeys| - |extraKeys| being their     *)
(* number; it is 0 when masterKeys is empty.                                *)
C9_CoverageDistinctLists ==
  (last.op = "compareKeys" /\ NoRepeats(last.args[1]) /\ NoRepeats(last.args[2])) =>
    /\ last.ret.coverage = SharedCoverage(last.args[1], last.args[2])
    /\ Len(last.args[2]) - Len(last.ret.extraKeys)
         = Cardinality(Range(last.args[2]) \cap Range(last.args[1]))
    /\ Len(last.args[1]) = 0 => last.ret.coverage = 0

C9_Witness ==
  /\ last.op = "compareKeys"
  /\ NoRepeats(last.args[1])
  /\ NoRepeats(last.args[2])
  /\ Len(last.args[1]) = 2
  /\ Len(last.ret.extraKeys) = 1
  /\ Len(last.ret.missingKeys) = 1
  /\ last.ret.coverage = 5000

(* Some target source differs from the master in its set of key paths.      *)
HasDiscrepancy(fsys) ==
  \E id \in DOMAIN fsys \ {masterFile} :
    /\ existsSync(fsys, id)
    /\ PathSet(fsys[id].tree) # PathSet(fsys[masterFile].tree)

(* C10: a run that completes returns 1 exactly when some target has a       *)
(* missing or an extra key and neither allowMissing nor warnOnly is set,    *)
(* and 0 otherwise, whatever strict is.                                     *)
C10_ExitCode ==
  (last.op = "run" /\ last.ret.completed) =>
    last.ret.exitCode =
      IF /\ HasDiscrepancy(files)
         /\ ~last.args[1].allowMissing
         /\ ~last.args[1].warnOnly
      THEN 1 ELSE 0

C10_Witness ==
  /\ last.op = "run"
  /\ last.ret.completed
  /\ last.ret.exitCode = 1
  /\ last.args[1].strict
  /\ HasDiscrepancy(files)

(* C11: with warnOnly set, a run never ends the process with exit code 1,   *)
(* whatever the state of the master and target sources.                     *)
C11_WarnOnlyNeverFails ==
  (last.op = "run" /\ last.args[1].warnOnly) => last.ret.exitCode # 1

(* The first argument, in argument order, that has one of the four forms.   *)
FirstLangArg(args) ==
  LET set == {i \in DOMAIN args : IsLangFlag(args[i]) \/ IsLangAssignment(args[i])}
  IN  IF set = {} THEN 0 ELSE CHOOSE i \in set : \A k \in set : i <= k

(* The text after the first "=" of an argument.                             *)
AfterEquals(arg) ==
  LET i == CHOOSE k \in DOMAIN arg : arg[k] = "=" /\ \A j \in 1..(k - 1) : arg[j] # "="
  IN  SubSeq(arg, i + 1, Len(arg))

(* What the first language argument asks for: the value after the flag or   *)
(* after its "=", and none when there is no value.                          *)
ValueOfFirst(args) ==
  LET i == FirstLangArg(args)
  IN  IF i = 0 THEN <<>>
      ELSE IF IsLangFlag(args[i])
      THEN (IF i + 1 \in DOMAIN args THEN args[i + 1] ELSE <<>>)
      ELSE AfterEquals(args[i])

(* A result that stands for the value v: the string v, and for no value     *)
(* null or the empty string.                                                *)
StandsFor(ret, v) == IF v = <<>> THEN ret \in {Null, Str(<<>>)} ELSE ret = Str(v)

(* C12: the result of parseLanguageFromArgs is the value of the first       *)
(* argument, in argument order, of one of the four forms, and null when     *)
(* there is no such argument or it has no value.                            *)
C12_FirstMatchWins ==
  last.op = "parseLanguageFromArgs" => StandsFor(last.ret, ValueOfFirst(last.args[1]))

(* The source of a locale identifier, as the locales directory has it now.  *)
SourceOf(loc) == IF loc \in DOMAIN files THEN files[loc] ELSE Missing

(* The registry is as it was before the last call.                          *)
RegistryUnchanged ==
  /\ translations = last.pre.translations
  /\ loadedLocales = last.pre.loadedLocales

(* C13: loadLocale of an identifier already in the registry returns true    *)
(* whatever its source is now; of one not in the registry, with its source  *)
(* missing it throws when the identifier is the fallback and returns false  *)
(* otherwise, and with its source unparsable it throws; in all these cases  *)
(* the registry is left as it was.                                          *)
C13_LoadLocale ==
  last.op = "loadLocale" =>
    LET loc == last.args[1]
    IN  /\ loc \in last.pre.loadedLocales =>
             last.ret = Bool(TRUE) /\ RegistryUnchanged
        /\ (loc \notin last.pre.loadedLocales /\ SourceOf(loc) = Missing) =>
             /\ last.ret = (IF loc = fallbackLocale THEN Threw ELSE Bool(FALSE))
             /\ RegistryUnchanged
        /\ (loc \notin last.pre.loadedLocales /\ SourceOf(loc) = Corrupt) =>
             last.ret = Threw /\ RegistryUnchanged

C13_Witness ==
  /\ last.op = "loadLocale"
  /\ last.args[1] = fallbackLocale
  /\ last.args[1] \notin last.pre.loadedLocales
  /\ SourceOf(last.args[1]) = Missing
  /\ last.ret = Threw

(* The getI18n calls that returned an instance, and the init calls.         *)
Returned(j) == calls[j].op = "getI18n" /\ calls[j].ret # 0

InitsBefore(j) == {i \in 1..(j - 1) : calls[i].op = "init"}

(* The greatest member of a non-empty set of call numbers.                  *)
Latest(set) == CHOOSE i \in set : \A k \in set : k <= i

(* Two getI18n calls with no init call between them return one instance.    *)
SameWithoutInit ==
  \A i, j \in DOMAIN calls :
    (i < j /\ Returned(i) /\ Returned(j) /\ InitsBefore(j) \ InitsBefore(i) = {}) =>
      calls[j].ret = calls[i].ret

(* C14 as stated: getI18n returns one instance while no init intervenes,    *)
(* and after an init call it returns the instance which the most recent     *)
(* init call constructed.                                                   *)
C14_LatestInit ==
  /\ SameWithoutInit
  /\ \A j \in DOMAIN calls :
       (Returned(j) /\ InitsBefore(j) # {}) => calls[j].ret = Latest(InitsBefore(j))

(* C14: getI18n returns one instance while no init intervenes, and after    *)
(* an init call that returned it returns the instance constructed by the    *)
(* most recent init call that returned; an init call that throws leaves     *)
(* the instance as it was.                                                  *)
C14_LatestReturnedInit ==
  /\ SameWithoutInit
  /\ \A j \in DOMAIN calls :
       LET done == {i \in InitsBefore(j) : calls[i].ret # 0}
       IN  (Returned(j) /\ done # {}) => calls[j].ret = Latest(done)
  /\ \A j \in DOMAIN calls :
       (calls[j].op = "init" /\ calls[j].ret = 0 /\ j > 1 /\ j < Len(calls)
          /\ Returned(j - 1) /\ Returned(j + 1)) =>
         calls[j + 1].ret = calls[j - 1].ret

C14_Witness ==
  /\ Len(calls) = 3
  /\ Returned(1)
  /\ calls[2] = [op |-> "init", ret |-> 2]
  /\ Returned(3) /\ calls[3].ret = 2
  /\ last.op = "getI18n"
  /\ last.args[1].locale # <<>> /\ last.args[1].locale # locale

(* C15: for the key path of a call of t and every tree of the registry, if  *)
(* the walk along the segments meets a node that is no tree, or a tree      *)
(* without the next segment, getNestedValue yields undefined.               *)
C15_NoPartialMatch ==
  last.op = "t" =>
    \A loc \in DOMAIN translations :
      Lookup(translations[loc], Split(last.args[1])) = Absent =>
        getNestedValue(translations[loc], last.args[1]) = Undefined

(* Every entry the registry had before the last call is in it still, with   *)
(* the tree it had.                                                         *)
RegistryKept ==
  /\ last.pre.loadedLocales \subseteq loadedLocales
  /\ \A loc \in DOMAIN last.pre.translations :
       loc \in DOMAIN translations /\ translations[loc] = last.pre.translations[loc]

(* C16: a call of loadLocale, setLanguage, t or getLocaleInfo, whether it   *)
(* returns or throws, and any other step but reload, removes no identifier  *)
(* from the registry and replaces no loaded tree.                           *)
C16_RegistryGrows ==
  (alive /\ last.op # "reload") => RegistryKept

C16_Witness ==
  /\ last.op = "loadLocale"
  /\ last.ret = Bool(TRUE)
  /\ last.args[1] \in last.pre.loadedLocales
  /\ SourceOf(last.args[1]) # Json(translations[last.args[1]])
  /\ SourceOf(last.args[1]) # Missing
  /\ SourceOf(last.args[1]) # Corrupt

(* C17: a call of t, with or without a locale of its own and whether that   *)
(* locale is loaded or not, and a call of getLocaleInfo leave the current   *)
(* locale, the fallback locale and the registry as they were.               *)
C17_ReadsOnly ==
  last.op \in {"t", "getLocaleInfo"} => Fields = last.pre

C17_Witness ==
  /\ last.op = "t"
  /\ last.args[3] = JA
  /\ locale = EN
  /\ JA \notin loadedLocales
  /\ SourceOf(JA) = Json(JaTree)
  /\ last.ret = Str(<<"h", "i", " ", "{", "n", "}">>)

(* The primary subtag of a locale hint: its text before the first "_", "."  *)
(* or "-", in lower case.                                                   *)
PrimarySubtag(hint) ==
  LET cut == {i \in DOMAIN hint : hint[i] \in {"_", ".", "-"}}
      n == IF cut = {} THEN Len(hint) ELSE (CHOOSE i \in cut : \A k \in cut : i <= k) - 1
  IN  [i \in 1..n |-> LowerChar(hint[i])]

(* The locale a construction is to settle on, fallback being the instance's *)
(* fallback identifier.                                                     *)
ExpectedLocale(options, env, fallback) ==
  LET hints == <<env.CLAUDE_LANG, env.LANG, env.LANGUAGE, env.LC_ALL>>
      set == {i \in DOMAIN hints : hints[i] # <<>>}
  IN  IF options.locale # <<>> THEN options.locale
      ELSE IF set # {} THEN PrimarySubtag(hints[CHOOSE i \in set : \A k \in set : i <= k])
      ELSE IF env.intl # <<>> THEN PrimarySubtag(env.intl)
      ELSE fallback

(* C18: after a construction the current locale is the locale of the        *)
(* options if given, else the primary subtag of the first non-empty hint    *)
(* among CLAUDE_LANG, LANG, LANGUAGE, LC_ALL, else that of the locale the   *)
(* system reports, else the instance's fallback identifier.                 *)
C18_ConstructionLocale ==
  (last.op = "new" /\ last.ret # Threw) =>
    locale = ExpectedLocale(last.args[1], last.args[2], fallbackLocale)

(* C19: once an instance is constructed, its fallback identifier is in the  *)
(* registry with its tree, whatever calls have been made since and whether  *)
(* they returned or threw.                                                  *)
C19_FallbackLoaded ==
  alive =>
    /\ fallbackLocale \in loadedLocales
    /\ fallbackLocale \in DOMAIN translations
    /\ translations[fallbackLocale].ty = "object"

====
